---- MODULE Spec2Model ----
(***************************************************************************)
(* The VPN/Proxy risk scorer of src/iptrack.py (check_vpn_status), as a    *)
(* state machine that walks through the phases of one call.  Strings are   *)
(* TLA+ strings and the substring, lower-casing, split and int() steps are *)
(* computed character by character, as Python computes them.  The page of  *)
(* the same file is a second state machine over st.session_state, with one *)
(* step per run of the script (SpecApp).                                   *)
(***************************************************************************)
EXTENDS Integers, Sequences, FiniteSets, TLC

VARIABLES calls, session_state, rendered

vars == <<calls, session_state, rendered>>

\* the variables of the page: st.session_state and what the last run showed
appvars == <<session_state, rendered>>

(* ------------------------------------------------------------------ *)
(* Python values and string primitives                                  *)
(* ------------------------------------------------------------------ *)

\* A Python value: a str, None, an int, a bool, or an absent dict key.
PyStr(s) == [t |-> "str", s |-> s, b |-> FALSE]
PyNone == [t |-> "none", s |-> "", b |-> FALSE]
PyInt == [t |-> "int", s |-> "", b |-> TRUE]
PyBool(b) == [t |-> "bool", s |-> "", b |-> b]
PyMissing == [t |-> "missing", s |-> "", b |-> FALSE]

\* type(x).__name__ as it appears in an AttributeError message
TypeName(x) == IF x.t = "none" THEN "NoneType" ELSE x.t

\* a raised exception: its class and str(e)
Raised(class, msg) == [class |-> class, msg |-> msg]

\* x.attr on a value that has no such attribute
AttributeError(x, attr) ==
    Raised("AttributeError",
           "'" \o TypeName(x) \o "' object has no attribute '" \o attr \o "'")

\* the classes below Exception that the modelled calls raise; what is only
\* a BaseException (KeyboardInterrupt, SystemExit) is not among them
ExceptionClasses ==
    { "AttributeError", "ValueError", "IndexError", "JSONDecodeError",
      "Timeout", "ConnectionError" }

\* except Exception
IsException(e) == e.class \in ExceptionClasses

\* dict.get(key, default): the default only when the key is absent
Get(d, key, default) == IF d[key].t = "missing" THEN default ELSE d[key]

\* the raw value of a field as an f-string prints it
Fmt(x) == IF x.t = "str" THEN x.s ELSE IF x.t = "none" THEN "None" ELSE x.t

Char(s, i) == SubSeq(s, i, i)

RestFrom(s, i) == SubSeq(s, i, Len(s))

UpperAlphabet == "ABCDEFGHIJKLMNOPQRSTUVWXYZ"

LowerAlphabet == "abcdefghijklmnopqrstuvwxyz"

LowerChar(c) ==
    IF \E i \in 1..26 : Char(UpperAlphabet, i) = c
    THEN Char(LowerAlphabet, CHOOSE i \in 1..26 : Char(UpperAlphabet, i) = c)
    ELSE c

\* the fields taken as they are, without lower()
Lower_Identity(s) == s

\* str.lower()
RECURSIVE Lower(_)
Lower(s) == IF s = "" THEN "" ELSE LowerChar(Char(s, 1)) \o Lower(RestFrom(s, 2))

\* the Python test  kw in s  on two strings
Contains(kw, s) ==
    \E i \in 1..(Len(s) - Len(kw) + 1) : SubSeq(s, i, i + Len(kw) - 1) = kw

\* any(k in s for k in list)
AnyIn(list, s) == \E i \in 1..Len(list) : Contains(list[i], s)

\* str.split('.')
RECURSIVE SplitFrom(_, _, _)
SplitFrom(s, i, cur) ==
    IF i > Len(s) THEN <<cur>>
    ELSE IF Char(s, i) = "." THEN <<cur>> \o SplitFrom(s, i + 1, "")
    ELSE SplitFrom(s, i + 1, cur \o Char(s, i))

Split(s) == SplitFrom(s, 1, "")

Digits == "0123456789"

IsDigit(c) == \E i \in 1..10 : Char(Digits, i) = c

DigitVal(c) == (CHOOSE i \in 1..10 : Char(Digits, i) = c) - 1

\* str.strip() restricted to the blank
RECURSIVE LStrip(_)
LStrip(s) == IF s # "" /\ Char(s, 1) = " " THEN LStrip(RestFrom(s, 2)) ELSE s

RECURSIVE RStrip(_)
RStrip(s) ==
    IF s # "" /\ Char(s, Len(s)) = " " THEN RStrip(SubSeq(s, 1, Len(s) - 1)) ELSE s

Strip(s) == RStrip(LStrip(s))

HasSign(s) == s # "" /\ Char(s, 1) \in {"+", "-"}

Unsigned(s) == IF HasSign(s) THEN RestFrom(s, 2) ELSE s

\* digits, with single underscores allowed between digits
IsDigitRun(s) ==
    /\ s # ""
    /\ IsDigit(Char(s, 1))
    /\ IsDigit(Char(s, Len(s)))
    /\ \A i \in 1..Len(s) : IsDigit(Char(s, i)) \/ Char(s, i) = "_"
    /\ \A i \in 1..(Len(s) - 1) : ~(Char(s, i) = "_" /\ Char(s, i + 1) = "_")

\* int(s) succeeds (otherwise it raises ValueError)
IntParses(s) == IsDigitRun(Unsigned(Strip(s)))

RECURSIVE DigitRunVal(_, _)
DigitRunVal(s, acc) ==
    IF s = "" THEN acc
    ELSE IF Char(s, 1) = "_" THEN DigitRunVal(RestFrom(s, 2), acc)
    ELSE DigitRunVal(RestFrom(s, 2), 10 * acc + DigitVal(Char(s, 1)))

\* int(s), for a string s on which IntParses holds
IntValue(s) ==
    LET body == Strip(s)
        mag == DigitRunVal(Unsigned(body), 0)
    IN  IF HasSign(body) /\ Char(body, 1) = "-" THEN 0 - mag ELSE mag

\* validate_ip_address(ip), for a str
validate_ip_address(ip) ==
    IF ip = "" THEN TRUE
    ELSE LET parts == Split(ip)
         IN  /\ Len(parts) = 4
             /\ \A k \in 1..4 :
                   /\ IntParses(parts[k])
                   /\ 0 <= IntValue(parts[k])
                   /\ IntValue(parts[k]) <= 255

Min(a, b) == IF a <= b THEN a ELSE b

RECURSIVE SumSeq(_)
SumSeq(s) == IF s = <<>> THEN 0 ELSE Head(s) + SumSeq(Tail(s))

(* ------------------------------------------------------------------ *)
(* Tables and weights of check_vpn_status                               *)
(* ------------------------------------------------------------------ *)

vpn_keywords ==
    << "vpn", "proxy", "virtual private", "private network", "tunnel", "anonymous",
       "privacy", "secure", "shield", "guard", "protect", "hide", "mask",
       "expressvpn", "nordvpn", "surfshark", "cyberghost", "purevpn",
       "hotspot shield", "windscribe", "protonvpn", "ipvanish", "vyprvpn",
       "privatevpn", "hidemyass", "tunnelbear", "zenmate", "avast secureline",
       "kaspersky secure", "mcafee safe", "norton secure", "bitdefender",
       "fastestssh", "ssh tunnel", "openvpn", "wireguard", "strongvpn" >>

datacenter_keywords ==
    << "hosting", "datacenter", "data center", "cloud", "server", "vps",
       "dedicated", "colocation", "colo", "infrastructure", "services",
       "amazon", "google", "microsoft", "digitalocean", "linode", "vultr",
       "ovh", "hetzner", "cloudflare", "fastly", "maxcdn", "keycdn",
       "contabo", "scaleway", "rackspace", "godaddy", "hostgator",
       "bluehost", "dreamhost", "namecheap", "hostinger" >>

mobile_keywords == << "mobile", "cellular", "wireless", "telecom", "communications" >>

vpn_friendly_countries ==
    << "netherlands", "switzerland", "panama", "romania", "bulgaria",
       "moldova", "seychelles", "british virgin islands", "cayman islands" >>

hosting_isp_words == << "hosting", "server", "cloud", "datacenter" >>

\* the list without its first brand
traditional_telecoms_NoComcast ==
    << "verizon", "at&t", "charter", "cox", "spectrum",
       "british telecom", "bt", "virgin media", "sky", "orange",
       "vodafone", "telefonica", "deutsche telekom", "t-mobile",
       "sprint", "rogers", "bell canada", "telus", "shaw" >>

traditional_telecoms ==
    << "comcast", "verizon", "at&t", "charter", "cox", "spectrum",
       "british telecom", "bt", "virgin media", "sky", "orange",
       "vodafone", "telefonica", "deutsche telekom", "t-mobile",
       "sprint", "rogers", "bell canada", "telus", "shaw" >>

common_last_octets == {1, 2, 3, 10, 50, 100}

ApiName == "VPNAPI.io"

VpnIspWeight == 25
VpnOrgWeight == 25
VpnAsWeight == 20
HostingIspWeight == 10
HostingOrgWeight == 10
HostingAsWeight == 8
HostingCap == 30
ProxyFlagWeight == 40
DatacenterIspWeight == 20
ApiVpnWeight == 35
ApiProxyWeight == 30
ApiTorWeight == 40
IpPatternWeight == 5
CountryWeight == 15
ScoreCap == 100
VeryHighThreshold == 70
HighThreshold == 50
MediumThreshold == 30
LowThreshold == 15
FallbackWeight == 10

(* ------------------------------------------------------------------ *)
(* One call of check_vpn_status, phase by phase                         *)
(* ------------------------------------------------------------------ *)

\* the dict built at the top of the function
InitialIndicators ==
    [is_vpn |-> FALSE, confidence |-> "Low", indicators |-> <<>>,
     risk_score |-> 0, debug_info |-> <<>>]

\* the frame of a call that has just been entered.  fired is the list of
\* the weights added to risk_score so far, api_tried records that the
\* request of the secondary API was issued.
NewCall(ip, geo, api) ==
    [pc |-> "read_geo", status |-> "running", ip |-> ip, geo |-> geo, api |-> api,
     isp |-> "", org |-> "", as_info |-> "", country |-> "", hosting_score |-> 0,
     vpn_indicators |-> InitialIndicators, fired |-> <<>>, api_tried |-> FALSE]

\* the indicator inserted at the front of the list
AddIndicator_Prepend(c, msg) == [c EXCEPT !.vpn_indicators.indicators = <<msg>> \o @]

AddIndicator(c, msg) == [c EXCEPT !.vpn_indicators.indicators = Append(@, msg)]

AddDebug(c, msg) == [c EXCEPT !.vpn_indicators.debug_info = Append(@, msg)]

AddScore(c, w) ==
    [c EXCEPT !.vpn_indicators.risk_score = @ + w, !.fired = Append(@, w)]

AddSignal(c, msg, w) == AddScore(AddIndicator(c, msg), w)

At(c, pc) == [c EXCEPT !.pc = pc]

\* an exception that no handler of the function catches leaves the call
Propagate(c, e) == [c EXCEPT !.pc = "done", !.status = "raised"]

\* the outer handler without its indicator
OuterExcept_NoIndicator(c, e) == At(AddDebug(c, "Exception: " \o e.msg), "return")

\* the body of the outer  except Exception as e
OuterExcept(c, e) ==
    At(AddDebug(AddIndicator(c, "Error during VPN check: " \o e.msg),
                "Exception: " \o e.msg), "return")

\* the outer handler narrowed to  except ValueError
OuterTry_OnlyValueError(c, e) ==
    IF e.class = "ValueError" THEN OuterExcept(c, e) ELSE Propagate(c, e)

\* an exception raised inside the outer try block
OuterTry(c, e) == IF IsException(e) THEN OuterExcept(c, e) ELSE Propagate(c, e)

RawField(c, key) == Get(c.geo.d, key, PyStr(""))

FieldKeys == << "isp", "org", "as", "country" >>

\* the first of the four  geo_data.get(key, '').lower()  that raises, or 0
FirstBadField(c) ==
    IF \E i \in 1..4 : RawField(c, FieldKeys[i]).t # "str"
    THEN CHOOSE i \in 1..4 :
            /\ RawField(c, FieldKeys[i]).t # "str"
            /\ \A j \in 1..(i - 1) : RawField(c, FieldKeys[j]).t = "str"
    ELSE 0

\* the four fields lower-cased in place, in the caller's record
ReadGeoFields_MutatesGeo(c) ==
    IF c.geo.t # "dict" THEN OuterTry(c, AttributeError(c.geo, "get"))
    ELSE IF FirstBadField(c) # 0
    THEN OuterTry(c, AttributeError(RawField(c, FieldKeys[FirstBadField(c)]), "lower"))
    ELSE LET isp == Lower(RawField(c, "isp").s)
             org == Lower(RawField(c, "org").s)
             as_info == Lower(RawField(c, "as").s)
             country == Lower(RawField(c, "country").s)
             c1 == [c EXCEPT !.isp = isp, !.org = org, !.as_info = as_info,
                             !.country = country,
                             !.geo.d.isp = PyStr(isp), !.geo.d.org = PyStr(org),
                             !.geo.d.as = PyStr(as_info),
                             !.geo.d.country = PyStr(country)]
         IN  At(AddDebug(AddDebug(AddDebug(c1, "ISP: " \o isp),
                                  "Organization: " \o org),
                         "AS: " \o as_info), "vpn_keywords")

ReadGeoFields(c) ==
    IF c.geo.t # "dict" THEN OuterTry(c, AttributeError(c.geo, "get"))
    ELSE IF FirstBadField(c) # 0
    THEN OuterTry(c, AttributeError(RawField(c, FieldKeys[FirstBadField(c)]), "lower"))
    ELSE LET isp == Lower(RawField(c, "isp").s)
             org == Lower(RawField(c, "org").s)
             as_info == Lower(RawField(c, "as").s)
             country == Lower(RawField(c, "country").s)
             c1 == [c EXCEPT !.isp = isp, !.org = org, !.as_info = as_info,
                             !.country = country]
         IN  At(AddDebug(AddDebug(AddDebug(c1, "ISP: " \o isp),
                                  "Organization: " \o org),
                         "AS: " \o as_info), "vpn_keywords")

\* a signal that fired: the indicator it appends and the weight it adds
Hit(msg, w) == << [msg |-> msg, w |-> w] >>

HitMsgs(hits) == [k \in 1..Len(hits) |-> hits[k].msg]

HitWeights(hits) == [k \in 1..Len(hits) |-> hits[k].w]

\* the body of  for keyword in vpn_keywords : the three tests, in order
VpnKeywordBody(c, keyword) ==
    (IF Contains(keyword, c.isp)
     THEN Hit("VPN keyword \"" \o keyword \o "\" found in ISP: "
                \o Fmt(RawField(c, "isp")), VpnIspWeight)
     ELSE <<>>)
    \o (IF Contains(keyword, c.org)
        THEN Hit("VPN keyword \"" \o keyword \o "\" found in Organization: "
                   \o Fmt(RawField(c, "org")), VpnOrgWeight)
        ELSE <<>>)
    \o (IF Contains(keyword, c.as_info)
        THEN Hit("VPN keyword \"" \o keyword \o "\" found in AS: "
                   \o Fmt(RawField(c, "as")), VpnAsWeight)
        ELSE <<>>)

\* the hits of the first n keywords, in the order the loop finds them
RECURSIVE VpnKeywordLoop(_, _)
VpnKeywordLoop(c, n) ==
    IF n = 0 THEN <<>>
    ELSE VpnKeywordLoop(c, n - 1) \o VpnKeywordBody(c, vpn_keywords[n])

ScanVpnKeywords(c) ==
    LET hits == VpnKeywordLoop(c, Len(vpn_keywords))
    IN  [c EXCEPT !.vpn_indicators.indicators = @ \o HitMsgs(hits),
                  !.vpn_indicators.risk_score = @ + SumSeq(HitWeights(hits)),
                  !.fired = @ \o HitWeights(hits),
                  !.pc = "hosting_keywords"]

\* the body of  for keyword in datacenter_keywords
HostingKeywordBody(c, keyword) ==
    (IF Contains(keyword, c.isp)
     THEN Hit("Hosting keyword \"" \o keyword \o "\" in ISP: "
                \o Fmt(RawField(c, "isp")), HostingIspWeight)
     ELSE <<>>)
    \o (IF Contains(keyword, c.org)
        THEN Hit("Hosting keyword \"" \o keyword \o "\" in Organization: "
                   \o Fmt(RawField(c, "org")), HostingOrgWeight)
        ELSE <<>>)
    \o (IF Contains(keyword, c.as_info)
        THEN Hit("Hosting keyword \"" \o keyword \o "\" in AS: "
                   \o Fmt(RawField(c, "as")), HostingAsWeight)
        ELSE <<>>)

RECURSIVE HostingKeywordLoop(_, _)
HostingKeywordLoop(c, n) ==
    IF n = 0 THEN <<>>
    ELSE HostingKeywordLoop(c, n - 1) \o HostingKeywordBody(c, datacenter_keywords[n])

\* the hosting loop without the min(hosting_score, 30)
ScanHostingKeywords_Uncapped(c) ==
    LET hits == HostingKeywordLoop(c, Len(datacenter_keywords))
        hosting_score == SumSeq(HitWeights(hits))
        c1 == [c EXCEPT !.vpn_indicators.indicators = @ \o HitMsgs(hits),
                        !.hosting_score = hosting_score,
                        !.pc = "proxy_flag"]
    IN  IF hosting_score > 0 THEN AddScore(c1, hosting_score) ELSE c1

\* the hosting keywords add to hosting_score; risk_score gets the capped sum
ScanHostingKeywords(c) ==
    LET hits == HostingKeywordLoop(c, Len(datacenter_keywords))
        hosting_score == SumSeq(HitWeights(hits))
        c1 == [c EXCEPT !.vpn_indicators.indicators = @ \o HitMsgs(hits),
                        !.hosting_score = hosting_score,
                        !.pc = "proxy_flag"]
    IN  IF hosting_score > 0
        THEN AddScore(c1, Min(hosting_score, HostingCap))
        ELSE c1

\* truth value of  geo_data.get('proxy', False)
Truthy(x) ==
    IF x.t = "str" THEN x.s # ""
    ELSE IF x.t \in {"bool", "int"} THEN x.b
    ELSE FALSE

\* the proxy flag with the weight of the fallback
CheckProxyFlag_Weak(c) ==
    At(IF Truthy(Get(c.geo.d, "proxy", PyBool(FALSE)))
       THEN AddSignal(c, "Proxy flag detected by ip-api.com", FallbackWeight)
       ELSE c, "datacenter_isp")

CheckProxyFlag(c) ==
    At(IF Truthy(Get(c.geo.d, "proxy", PyBool(FALSE)))
       THEN AddSignal(c, "Proxy flag detected by ip-api.com", ProxyFlagWeight)
       ELSE c, "datacenter_isp")

CheckDatacenterIsp(c) ==
    LET is_mobile_isp == AnyIn(mobile_keywords, c.isp)
        is_datacenter == AnyIn(datacenter_keywords, c.isp)
    IN  At(IF is_datacenter /\ ~is_mobile_isp
           THEN AddSignal(c, "Datacenter ISP detected: " \o Fmt(RawField(c, "isp")),
                          DatacenterIspWeight)
           ELSE c, "api")

\* What the request to the secondary API does: requests.get raises
\* (kind "raise"), or a response with a status code arrives whose body is
\* not JSON (json "invalid": response.json() raises), JSON that is no
\* dict (json "list"), or a dict whose 'security' entry is a dict or not.
ApiRaise(class, msg) ==
    [kind |-> "raise", class |-> class, msg |-> msg, code |-> 0, json |-> "invalid",
     security_is_dict |-> FALSE, vpn |-> FALSE, proxy |-> FALSE, tor |-> FALSE]

ApiResponse(code, json, security_is_dict, vpn, proxy, tor) ==
    [kind |-> "response", class |-> "JSONDecodeError",
     msg |-> "Expecting value: line 1 column 1 (char 0)", code |-> code, json |-> json, security_is_dict |-> security_is_dict,
     vpn |-> vpn, proxy |-> proxy, tor |-> tor]

\* the 'parser' lambda of the vpn_apis entry
parser(data) ==
    [vpn |-> IF data.security_is_dict THEN data.vpn ELSE FALSE,
     proxy |-> IF data.security_is_dict THEN data.proxy ELSE FALSE,
     tor |-> IF data.security_is_dict THEN data.tor ELSE FALSE]

\* the body of the  except Exception as e  around one API of the loop
ApiExcept(c, e) == AddDebug(c, ApiName \o " check failed: " \o e.msg)

\* the API loop without its own try/except
ApiTry_Uncaught(c, e) == OuterTry(c, e)

\* an exception raised inside the try block of the API loop; the next
\* statement after the loop is the IP pattern analysis
ApiTry(c, e) ==
    IF IsException(e) THEN At(ApiExcept(c, e), "ip_pattern") ELSE OuterTry(c, e)

ApiFlags(c, parsed) ==
    LET c1 == IF parsed.vpn
              THEN AddSignal(c, "VPN detected by " \o ApiName, ApiVpnWeight)
              ELSE c
        c2 == IF parsed.proxy
              THEN AddSignal(c1, "Proxy detected by " \o ApiName, ApiProxyWeight)
              ELSE c1
    IN  IF parsed.tor
        THEN AddSignal(c2, "Tor network detected by " \o ApiName, ApiTorWeight)
        ELSE c2

CheckVpnApis(c) ==
    LET c0 == [c EXCEPT !.api_tried = TRUE]
        api == c.api
    IN  IF api.kind = "raise" THEN ApiTry(c0, Raised(api.class, api.msg))
        ELSE IF api.code # 200 THEN At(c0, "ip_pattern")
        ELSE IF api.json = "invalid" THEN ApiTry(c0, Raised(api.class, api.msg))
        ELSE IF api.json # "dict" THEN At(c0, "ip_pattern")
        ELSE At(ApiFlags(c0, parser(api)), "ip_pattern")

\* the body of  except (ValueError, IndexError)  of the pattern analysis
IpPatternExcept(c) == AddDebug(c, "Could not parse IP address for pattern analysis")

\* the pattern analysis without its own try/except
IpPatternTry_Uncaught(c, e) == OuterTry(c, e)

\* an exception raised inside the try block of the pattern analysis
\* (JSONDecodeError is a ValueError, but int() raises the plain class)
IpPatternTry(c, e) ==
    IF e.class \in {"ValueError", "IndexError"}
    THEN At(IpPatternExcept(c), "country")
    ELSE OuterTry(c, e)

\* the pattern analysis with a +25 signal for the 10. range added
CheckIpPattern_PrivateRange(c) ==
    IF c.ip.t # "str" THEN IpPatternTry(c, AttributeError(c.ip, "split"))
    ELSE LET c1 == IF Len(c.ip.s) >= 3 /\ SubSeq(c.ip.s, 1, 3) = "10."
                   THEN AddSignal(c, "Private IP range detected", 25)
                   ELSE c
             ip_parts == Split(c.ip.s)
         IN  IF Len(ip_parts) # 4 THEN At(c1, "country")
             ELSE IF ~IntParses(ip_parts[4])
             THEN IpPatternTry(c1, Raised("ValueError",
                      "invalid literal for int() with base 10"))
             ELSE IF IntValue(ip_parts[4]) \in common_last_octets
             THEN At(AddSignal(c1, "Common VPN server IP pattern detected",
                               IpPatternWeight), "country")
             ELSE At(c1, "country")

CheckIpPattern(c) ==
    IF c.ip.t # "str" THEN IpPatternTry(c, AttributeError(c.ip, "split"))
    ELSE LET ip_parts == Split(c.ip.s)
         IN  IF Len(ip_parts) # 4 THEN At(c, "country")
             ELSE IF ~IntParses(ip_parts[4])
             THEN IpPatternTry(c, Raised("ValueError",
                      "invalid literal for int() with base 10"))
             ELSE IF IntValue(ip_parts[4]) \in common_last_octets
             THEN At(AddSignal(c, "Common VPN server IP pattern detected",
                               IpPatternWeight), "country")
             ELSE At(c, "country")

CheckCountry(c) ==
    At(IF AnyIn(vpn_friendly_countries, c.country) /\ AnyIn(hosting_isp_words, c.isp)
       THEN AddSignal(c, "VPN-friendly country (" \o c.country \o ") with hosting ISP",
                      CountryWeight)
       ELSE c, "clamp")

Clamp(score) == Min(score, ScoreCap)

\* the if/elif chain that maps the clamped score to a tier
Tier(c) ==
    LET score == c.vpn_indicators.risk_score
        flag(conf) == [c EXCEPT !.vpn_indicators.is_vpn = TRUE,
                                !.vpn_indicators.confidence = conf]
    IN  IF score >= VeryHighThreshold THEN flag("Very High")
        ELSE IF score >= HighThreshold THEN flag("High")
        ELSE IF score >= MediumThreshold THEN flag("Medium")
        ELSE IF score >= LowThreshold THEN flag("Low")
        ELSE c

ClampAndTier(c) ==
    At(Tier([c EXCEPT !.vpn_indicators.risk_score = Clamp(@)]), "fallback")

\* the fallback restricted to assessments in which nothing has fired
Fallback_OnlyWhenZero(c) ==
    LET is_traditional == AnyIn(traditional_telecoms, c.isp)
    IN  At(IF ~is_traditional /\ c.isp # "" /\ c.vpn_indicators.risk_score = 0
              /\ c.vpn_indicators.indicators = <<>>
           THEN AddSignal(c, "Non-traditional ISP detected: "
                               \o Fmt(RawField(c, "isp")), FallbackWeight)
           ELSE c, "return")

Fallback(c) ==
    LET is_traditional == AnyIn(traditional_telecoms, c.isp)
    IN  At(IF ~is_traditional /\ c.isp # "" /\ c.vpn_indicators.risk_score < LowThreshold
           THEN LET c1 == AddSignal(c, "Non-traditional ISP detected: "
                                         \o Fmt(RawField(c, "isp")), FallbackWeight)
                IN  IF c1.vpn_indicators.risk_score >= LowThreshold
                    THEN [c1 EXCEPT !.vpn_indicators.is_vpn = TRUE,
                                    !.vpn_indicators.confidence = "Low"]
                    ELSE c1
           ELSE c, "return")

\* return vpn_indicators
Return(c) == [c EXCEPT !.pc = "done", !.status = "returned"]

\* the whole function, as the composition of its phases
RECURSIVE RunFrom(_)
RunFrom(c) ==
    IF c.pc = "done" THEN c
    ELSE IF c.pc = "read_geo" THEN RunFrom(ReadGeoFields(c))
    ELSE IF c.pc = "vpn_keywords" THEN RunFrom(ScanVpnKeywords(c))
    ELSE IF c.pc = "hosting_keywords" THEN RunFrom(ScanHostingKeywords(c))
    ELSE IF c.pc = "proxy_flag" THEN RunFrom(CheckProxyFlag(c))
    ELSE IF c.pc = "datacenter_isp" THEN RunFrom(CheckDatacenterIsp(c))
    ELSE IF c.pc = "api" THEN RunFrom(CheckVpnApis(c))
    ELSE IF c.pc = "ip_pattern" THEN RunFrom(CheckIpPattern(c))
    ELSE IF c.pc = "country" THEN RunFrom(CheckCountry(c))
    ELSE IF c.pc = "clamp" THEN RunFrom(ClampAndTier(c))
    ELSE IF c.pc = "fallback" THEN RunFrom(Fallback(c))
    ELSE RunFrom(Return(c))

check_vpn_status(ip_address, geo_data, api) == RunFrom(NewCall(ip_address, geo_data, api))

(* ------------------------------------------------------------------ *)
(* Inputs                                                                *)
(* ------------------------------------------------------------------ *)

GeoDict(isp, org, as_info, country, proxy) ==
    [t |-> "dict",
     d |-> [isp |-> isp, org |-> org, as |-> as_info, country |-> country,
            proxy |-> proxy]]

NoFields ==
    [isp |-> PyMissing, org |-> PyMissing, as |-> PyMissing, country |-> PyMissing,
     proxy |-> PyMissing]

\* geo_data that is no dict: None, or a str
GeoNone == [t |-> "none", d |-> NoFields]

GeoNotARecord == [t |-> "str", d |-> NoFields]

IspValues ==
    { PyMissing, PyStr("Comcast Cable"), PyStr("NordVPN Services"),
      PyStr("Acme Fiber"), PyStr("Secure VPN Proxy Tunnel Shield"),
      PyStr("Amazon Cloud Hosting"), PyStr("Cloud Mobile") }

OrgValues == { PyStr(""), PyStr("Comcast"), PyStr("ProtonVPN Cloud") }

AsValues == { PyMissing, PyStr("AS7922 Comcast"), PyStr("AS14061 DigitalOcean") }

CountryValues == { PyStr("United States"), PyStr("Netherlands") }

ProxyValues == { PyMissing, PyBool(TRUE) }

\* dicts whose fields are all strings (or absent)
WellFormedGeos ==
    { GeoDict(isp, org, as_info, country, proxy) :
        isp \in IspValues, org \in OrgValues, as_info \in AsValues,
        country \in CountryValues, proxy \in ProxyValues }

\* dicts with a field that is None or an int
BrokenGeos ==
    { GeoDict(PyNone, PyStr("ProtonVPN Cloud"), PyMissing, PyStr("Netherlands"),
              PyBool(TRUE)),
      GeoDict(PyStr("NordVPN Services"), PyStr(""), PyStr(""), PyNone, PyMissing),
      GeoDict(PyStr("Amazon Cloud Hosting"), PyInt, PyMissing, PyStr("Netherlands"),
              PyMissing) }

GeoInputs == WellFormedGeos \cup BrokenGeos \cup {GeoNone, GeoNotARecord}

IpInputs ==
    { PyNone, PyStr("8.8.8.8"), PyStr("10.0.0.1"), PyStr("1.2.3"), PyStr("1.2.3.x"),
      PyStr("a.b.c.100"), PyStr("8.8.8.1_0") }

ApiNoFlags == ApiResponse(200, "dict", TRUE, FALSE, FALSE, FALSE)

ApiInputs ==
    { ApiRaise("Timeout",
               "HTTPSConnectionPool(host='vpnapi.io', port=443): Read timed out."),
      ApiResponse(404, "dict", FALSE, FALSE, FALSE, FALSE),
      ApiResponse(200, "invalid", FALSE, FALSE, FALSE, FALSE),
      ApiResponse(200, "list", FALSE, FALSE, FALSE, FALSE),
      ApiResponse(200, "dict", FALSE, TRUE, TRUE, TRUE),
      ApiNoFlags,
      ApiResponse(200, "dict", TRUE, TRUE, FALSE, FALSE),
      ApiResponse(200, "dict", TRUE, FALSE, TRUE, FALSE),
      ApiResponse(200, "dict", TRUE, FALSE, FALSE, TRUE),
      ApiResponse(200, "dict", TRUE, TRUE, TRUE, TRUE) }

CallInputs ==
    { NewCall(ip, geo, api) : ip \in IpInputs, geo \in GeoInputs, api \in ApiInputs }

(* ------------------------------------------------------------------ *)
(* The page: st.session_state as the script initialises it               *)
(* ------------------------------------------------------------------ *)

\* lines 518-529; current_public_ip is not a key until Get My IP sets it
InitialSessionState ==
    [tracking_results |-> PyNone, last_tracked_ip |-> PyNone,
     show_results |-> FALSE, user_latitude |-> PyNone, user_longitude |-> PyNone,
     ip_input |-> "", current_public_ip |-> PyMissing]

\* what the script has put on the page: the key of the widget whose change
\* started the run, its messages in order, whether the Clear Results button
\* was drawn, the results displayed, and whether the track logic sent a
\* geolocation request
Page(widget, messages, clear_button, results, lookup) ==
    [widget |-> widget, messages |-> messages, clear_button |-> clear_button,
     results |-> results, lookup |-> lookup]

FirstPage == Page("", <<>>, FALSE, PyNone, FALSE)

(* ------------------------------------------------------------------ *)
(* The state machine: one call, then two calls side by side             *)
(* ------------------------------------------------------------------ *)

Init ==
    /\ calls \in [{1} -> CallInputs]
    /\ session_state = InitialSessionState
    /\ rendered = FirstPage

DoReadGeoFields(i) ==
    /\ calls[i].pc = "read_geo"
    /\ calls' = [calls EXCEPT ![i] = ReadGeoFields(calls[i])]
    /\ UNCHANGED appvars

DoScanVpnKeywords(i) ==
    /\ calls[i].pc = "vpn_keywords"
    /\ calls' = [calls EXCEPT ![i] = ScanVpnKeywords(calls[i])]
    /\ UNCHANGED appvars

DoScanHostingKeywords(i) ==
    /\ calls[i].pc = "hosting_keywords"
    /\ calls' = [calls EXCEPT ![i] = ScanHostingKeywords(calls[i])]
    /\ UNCHANGED appvars

DoCheckProxyFlag(i) ==
    /\ calls[i].pc = "proxy_flag"
    /\ calls' = [calls EXCEPT ![i] = CheckProxyFlag(calls[i])]
    /\ UNCHANGED appvars

DoCheckDatacenterIsp(i) ==
    /\ calls[i].pc = "datacenter_isp"
    /\ calls' = [calls EXCEPT ![i] = CheckDatacenterIsp(calls[i])]
    /\ UNCHANGED appvars

DoCheckVpnApis(i) ==
    /\ calls[i].pc = "api"
    /\ calls' = [calls EXCEPT ![i] = CheckVpnApis(calls[i])]
    /\ UNCHANGED appvars

DoCheckIpPattern(i) ==
    /\ calls[i].pc = "ip_pattern"
    /\ calls' = [calls EXCEPT ![i] = CheckIpPattern(calls[i])]
    /\ UNCHANGED appvars

DoCheckCountry(i) ==
    /\ calls[i].pc = "country"
    /\ calls' = [calls EXCEPT ![i] = CheckCountry(calls[i])]
    /\ UNCHANGED appvars

DoClampAndTier(i) ==
    /\ calls[i].pc = "clamp"
    /\ calls' = [calls EXCEPT ![i] = ClampAndTier(calls[i])]
    /\ UNCHANGED appvars

DoFallback(i) ==
    /\ calls[i].pc = "fallback"
    /\ calls' = [calls EXCEPT ![i] = Fallback(calls[i])]
    /\ UNCHANGED appvars

DoReturn(i) ==
    /\ calls[i].pc = "return"
    /\ calls' = [calls EXCEPT ![i] = Return(calls[i])]
    /\ UNCHANGED appvars

Next ==
    \E i \in DOMAIN calls :
        \/ DoReadGeoFields(i)
        \/ DoScanVpnKeywords(i)
        \/ DoScanHostingKeywords(i)
        \/ DoCheckProxyFlag(i)
        \/ DoCheckDatacenterIsp(i)
        \/ DoCheckVpnApis(i)
        \/ DoCheckIpPattern(i)
        \/ DoCheckCountry(i)
        \/ DoClampAndTier(i)
        \/ DoFallback(i)
        \/ DoReturn(i)

Spec == Init /\ [][Next]_vars

Finished(i) == calls[i].status # "running"

Result(i) == calls[i].vpn_indicators

TypeOK ==
    \A i \in DOMAIN calls :
        /\ calls[i].status \in {"running", "returned", "raised"}
        /\ calls[i].vpn_indicators.is_vpn \in BOOLEAN
        /\ calls[i].vpn_indicators.risk_score \in Nat

(* two calls side by side, on a few inputs that cover every tier *)
PairIpInputs == { PyNone, PyStr("8.8.8.8") }

PairGeoInputs ==
    { GeoNone,
      GeoDict(PyStr("Acme Fiber"), PyStr(""), PyMissing, PyStr("United States"),
              PyMissing),
      GeoDict(PyStr("Amazon Cloud Hosting"), PyStr(""), PyMissing,
              PyStr("United States"), PyMissing),
      GeoDict(PyStr("Secure VPN Proxy Tunnel Shield"), PyStr(""), PyMissing,
              PyStr("United States"), PyMissing) }

PairApiInputs ==
    { ApiNoFlags, ApiRaise("ConnectionError", "Connection refused") }

PairInputs ==
    { NewCall(ip, geo, api) :
        ip \in PairIpInputs, geo \in PairGeoInputs, api \in PairApiInputs }

InitPair ==
    /\ calls \in [{1, 2} -> PairInputs]
    /\ session_state = InitialSessionState
    /\ rendered = FirstPage

SpecPair == InitPair /\ [][Next]_vars

(* ------------------------------------------------------------------ *)
(* The page: its collaborators' answers                                  *)
(* ------------------------------------------------------------------ *)

\* one answer of an IP detection service: the request raised, or a JSON
\* object holding one key
ServiceDown == [kind |-> "raise", key |-> "", value |-> ""]

ServiceJson(key, value) == [kind |-> "json", key |-> key, value |-> value]

\* the result of a call that returns a value or raises
Returns(value) == [raised |-> FALSE, value |-> value]

Raises(msg) == [raised |-> TRUE, value |-> msg]

\* for service in services: the first answer holding origin, ip or query
RECURSIVE PublicIpFrom(_, _)
PublicIpFrom(answers, k) ==
    IF k > Len(answers) THEN Raises("All IP detection services failed")
    ELSE IF answers[k].kind = "json" /\ answers[k].key \in {"origin", "ip", "query"}
    THEN Returns(answers[k].value)
    ELSE PublicIpFrom(answers, k + 1)

get_public_ip(answers) == PublicIpFrom(answers, 1)

\* the answer of the geolocation request: the exception it raised, or the
\* JSON it returned; geo holds the fields check_vpn_status reads
GeoFailure(kind) ==
    [kind |-> kind, is_dict |-> FALSE, status |-> "", message |-> "",
     lat |-> PyNone, lon |-> PyNone, city |-> "", regionName |-> "", zip |-> "",
     geo |-> GeoNone]

GeoAnswer(status, message, lat, lon, city, regionName, zip, geo) ==
    [kind |-> "json", is_dict |-> TRUE, status |-> status, message |-> message,
     lat |-> lat, lon |-> lon, city |-> city, regionName |-> regionName,
     zip |-> zip, geo |-> geo]

\* results['weather'] and results['network'] as the two fetches leave them
WeatherReport == [t |-> "dict", temp |-> "14.2 C", description |-> "Overcast"]

SpeedResult(success) == [speed |-> [success |-> success]]

WebcamTip == "Tip: Provide a Windy API Key to view nearby webcams."

\* the dictionary built at lines 811-827 and filled in up to line 940, for
\* an empty Windy API key
Results(current_ip, ans, vpn_status, weather, network) ==
    [t |-> "dict", ip_address |-> current_ip, lat |-> ans.lat, lon |-> ans.lon,
     city |-> ans.city, region |-> ans.regionName,
     country |-> Get(ans.geo.d, "country", PyStr("Unknown")),
     zip_code |-> ans.zip,
     isp |-> Get(ans.geo.d, "isp", PyStr("Unknown")),
     org |-> Get(ans.geo.d, "org", PyStr("N/A")),
     as_info |-> Get(ans.geo.d, "as", PyStr("N/A")),
     weather |-> weather, webcams |-> <<>>, webcam_message |-> WebcamTip,
     vpn_status |-> vpn_status, network |-> network]

\* results['vpn_status'] when check_vpn_status raised (lines 833-840)
VpnCheckFailed ==
    [is_vpn |-> FALSE, confidence |-> "Unknown",
     indicators |-> << "VPN check failed: " >>, risk_score |-> 0]

(* ------------------------------------------------------------------ *)
(* The page: inputs                                                      *)
(* ------------------------------------------------------------------ *)

PublicIp == "203.0.113.7"

\* what the user types into the IP field
TypedIps == { "", "8.8.8.8", " 1.1.1.1", "999.1.1.1" }

PublicIpAnswers ==
    { << ServiceDown, ServiceDown, ServiceDown >>,
      << ServiceJson("origin", PublicIp), ServiceDown, ServiceDown >>,
      << ServiceDown, ServiceJson("ip", PublicIp), ServiceDown >>,
      << ServiceJson("error", "rate limited"), ServiceDown,
         ServiceJson("query", PublicIp) >> }

AmsterdamAnswer ==
    GeoAnswer("success", "", PyStr("52.37"), PyStr("4.89"), "Amsterdam",
              "North Holland", "1012",
              GeoDict(PyStr("NordVPN Services"), PyStr(""), PyMissing,
                      PyStr("Netherlands"), PyMissing))

PhiladelphiaAnswer ==
    GeoAnswer("success", "", PyStr("39.95"), PyStr("-75.16"), "Philadelphia",
              "Pennsylvania", "19103",
              GeoDict(PyStr("Comcast Cable"), PyStr("Comcast"),
                      PyStr("AS7922 Comcast"), PyStr("United States"), PyMissing))

GoodAnswers == { AmsterdamAnswer, PhiladelphiaAnswer }

GeoAnswers ==
    GoodAnswers \cup
    { GeoFailure("Timeout"), GeoFailure("HTTPError"), GeoFailure("JSONDecodeError"),
      [GeoFailure("json") EXCEPT !.message = "list"],
      GeoAnswer("fail", "invalid query", PyNone, PyNone, "", "", "", [t |-> "dict", d |-> NoFields]),
      GeoAnswer("success", "", PyNone, PyNone, "", "", "",
                GeoDict(PyStr("Acme Fiber"), PyStr(""), PyMissing,
                        PyStr("United States"), PyMissing)) }

PageApiAnswers == { ApiNoFlags, ApiRaise("ConnectionError", "Connection refused") }

WeatherAnswers == { PyNone, WeatherReport }

SpeedAnswers == { SpeedResult(TRUE), SpeedResult(FALSE) }

\* the addresses the page can hand to check_vpn_status
PageIps == { Strip(v) : v \in TypedIps \cup { PublicIp } } \ { "" }

\* check_vpn_status on the inputs of the page, computed once
VpnChecks ==
    [ip \in PageIps, ans \in GeoAnswers, api \in PageApiAnswers |->
        check_vpn_status(PyStr(ip), ans.geo, api)]

(* ------------------------------------------------------------------ *)
(* The page: one run of the script per click or edit                     *)
(* ------------------------------------------------------------------ *)

\* what the track logic leaves: the session state, the messages it wrote,
\* whether st.stop() ended the run, whether it sent a geolocation request
Outcome(ss, messages, stopped, lookup) ==
    [ss |-> ss, messages |-> messages, stopped |-> stopped, lookup |-> lookup]

\* a run in which Track Location was not clicked
NoTrack(ss) == Outcome(ss, <<>>, FALSE, FALSE)

\* lines 619-620
YourCurrentIp(ss) ==
    IF ss.current_public_ip # PyMissing
    THEN << "Your Current IP: " \o Fmt(ss.current_public_ip) >>
    ELSE <<>>

\* the condition of lines 755 and 961
ResultsShown(ss) == ss.show_results /\ ss.tracking_results # PyNone

\* the page at the end of a run: the button of line 755 is drawn from the
\* state the sidebar left, the results of lines 961-964 from the state the
\* track logic left, unless st.stop() ended the run before
ScriptRun(widget, sidebar, messages, o) ==
    Page(widget, messages \o o.messages, ResultsShown(sidebar),
         IF ~o.stopped /\ ResultsShown(o.ss) THEN o.ss.tracking_results ELSE PyNone,
         o.lookup)

\* the test of lines 779-782 with the second operand dropped
need_new_data_OnlyWhenEmpty(ss, current_ip) == ss.tracking_results = PyNone

\* lines 779-782
need_new_data(ss, current_ip) ==
    ss.tracking_results = PyNone \/ ss.last_tracked_ip # PyStr(current_ip)

\* the three writes of lines 942-944 moved before the coordinate test
GeoLookupStopped_WritesIp(ss, info, current_ip, msg) ==
    Outcome([ss EXCEPT !.last_tracked_ip = PyStr(current_ip)],
            info \o << msg >>, TRUE, TRUE)

\* lines 794-796 and 799-801: st.error and st.stop()
GeoLookupStopped(ss, info, current_ip, msg) == Outcome(ss, info \o << msg >>, TRUE, TRUE)

\* the handlers of lines 948-955, by the class of the exception
TrackExcept(ss, info, ans) ==
    Outcome(ss,
            info \o << IF ans.kind = "Timeout"
                       THEN "Request timed out. Please check your internet connection and try again."
                       ELSE IF ans.kind = "HTTPError"
                       THEN "Network error: " \o ans.kind
                       ELSE IF ans.kind = "JSONDecodeError"
                       THEN "Invalid response format from geolocation service."
                       ELSE "Unexpected error: 'list' object has no attribute 'get'" >>,
            FALSE, TRUE)

\* lines 785-946: the request, the two tests, the dictionary, the writes
GeoLookup(ss, info, current_ip, ans, api, weather, network) ==
    IF ans.kind # "json" \/ ~ans.is_dict THEN TrackExcept(ss, info, ans)
    ELSE IF ans.status = "fail"
    THEN GeoLookupStopped(ss, info, current_ip, "Error: " \o ans.message)
    ELSE IF ans.lat = PyNone \/ ans.lon = PyNone
    THEN GeoLookupStopped(ss, info, current_ip,
                          "Unable to determine coordinates for this IP address.")
    ELSE LET call == VpnChecks[current_ip, ans, api]
             results == Results(current_ip, ans,
                                IF call.status = "raised" THEN VpnCheckFailed
                                ELSE call.vpn_indicators,
                                weather, network)
         IN  Outcome([ss EXCEPT !.tracking_results = results,
                                !.last_tracked_ip = PyStr(current_ip),
                                !.show_results = TRUE],
                     info
                     \o (IF weather = PyNone
                         THEN << "Could not fetch weather data" >> ELSE <<>>)
                     \o << "Location data fetched successfully!" >>,
                     FALSE, TRUE)

\* lines 956-958
ShowCached(ss, info) ==
    Outcome([ss EXCEPT !.show_results = TRUE],
            info \o << "Showing cached results for this IP address." >>, FALSE, FALSE)

\* lines 764-958: the track logic of a run in which the button was clicked
TrackLogic(ss, pub, ans, api, weather, network) ==
    LET ip_address == ss.ip_input
    IN  IF ip_address # "" /\ ~validate_ip_address(ip_address)
        THEN Outcome(ss, << "Invalid IP address format. Please enter a valid IPv4 address." >>,
                     FALSE, FALSE)
        ELSE IF Strip(ip_address) = "" /\ get_public_ip(pub).raised
        THEN Outcome(ss, << "Error fetching public IP: " \o get_public_ip(pub).value >>,
                     TRUE, FALSE)
        ELSE LET current_ip == IF Strip(ip_address) = ""
                               THEN get_public_ip(pub).value ELSE Strip(ip_address)
                 info == IF Strip(ip_address) = ""
                         THEN << "Using your public IP: " \o current_ip >> ELSE <<>>
             IN  IF need_new_data(ss, current_ip)
                 THEN GeoLookup(ss, info, current_ip, ans, api, weather, network)
                 ELSE ShowCached(ss, info)

\* lines 757-761 without the reset of last_tracked_ip
ClearClicked_KeepsIp(ss) ==
    [ss EXCEPT !.tracking_results = PyNone, !.show_results = FALSE]

\* lines 757-761
ClearClicked(ss) ==
    [ss EXCEPT !.tracking_results = PyNone, !.last_tracked_ip = PyNone,
               !.show_results = FALSE]

\* lines 608-617: the state Get My IP leaves, and whether it reruns
GetMyIpClicked(ss, pub) ==
    IF get_public_ip(pub).raised THEN ss
    ELSE [ss EXCEPT !.current_public_ip = PyStr(get_public_ip(pub).value),
                    !.ip_input = get_public_ip(pub).value]

\* lines 636-647
Verdict(vpn_status) ==
    << IF vpn_status.is_vpn
       THEN IF vpn_status.confidence \in {"Very High", "High"}
            THEN "VPN/Proxy Detected (Confidence: " \o vpn_status.confidence \o ")"
            ELSE IF vpn_status.confidence = "Medium"
            THEN "Likely VPN/Proxy (Confidence: " \o vpn_status.confidence \o ")"
            ELSE "Possible VPN/Proxy (Confidence: " \o vpn_status.confidence \o ")"
       ELSE "Direct Connection - No VPN/Proxy detected",
       "Risk Score: " \o ToString(vpn_status.risk_score) \o "/100" >>

\* lines 623-655: what Get VPN Status writes in the sidebar
GetVpnStatusClicked(ss, pub, ans, api) ==
    IF Strip(ss.ip_input) = "" /\ get_public_ip(pub).raised
    THEN << "Error checking VPN: " \o get_public_ip(pub).value >>
    ELSE LET current_ip == IF Strip(ss.ip_input) = ""
                           THEN get_public_ip(pub).value ELSE Strip(ss.ip_input)
         IN  IF ans.kind \in {"Timeout", "HTTPError"}
             THEN << "Network error checking VPN: " \o ans.kind >>
             ELSE IF ans.kind # "json" \/ ~ans.is_dict
             THEN << "Error checking VPN: " \o ans.kind >>
             ELSE IF ans.status = "success"
             THEN Verdict(VpnChecks[current_ip, ans, api].vpn_indicators)
             ELSE << "Could not check VPN status: " \o ans.message >>

(* ------------------------------------------------------------------ *)
(* The state machine of the page                                         *)
(* ------------------------------------------------------------------ *)

\* the answers that can matter to a run: the IP services are asked only
\* for an empty IP field, the API only for an answer with status success,
\* weather and speed only for an answer with coordinates
PublicIpAsked(ss) ==
    IF Strip(ss.ip_input) = "" THEN PublicIpAnswers
    ELSE { << ServiceDown, ServiceDown, ServiceDown >> }

ApiAsked(ans) ==
    IF ans.kind = "json" /\ ans.is_dict /\ ans.status = "success"
    THEN PageApiAnswers ELSE { ApiNoFlags }

WeatherAsked(ans) == IF ans \in GoodAnswers THEN WeatherAnswers ELSE { PyNone }

SpeedAsked(ans) == IF ans \in GoodAnswers THEN SpeedAnswers ELSE { SpeedResult(FALSE) }

InitApp ==
    /\ calls = [i \in {} |-> NewCall(PyNone, GeoNone, ApiNoFlags)]
    /\ session_state = InitialSessionState
    /\ rendered = FirstPage

\* the user changes the text of the IP field: a run without a click
EditIpInput ==
    \E v \in TypedIps :
        /\ v # session_state.ip_input
        /\ session_state' = [session_state EXCEPT !.ip_input = v]
        /\ rendered' = ScriptRun("ip_input", session_state',
                                 YourCurrentIp(session_state'),
                                 NoTrack(session_state'))
        /\ UNCHANGED calls

\* Get My IP: on success the two writes and st.rerun(), else st.error
GetMyIp ==
    \E pub \in PublicIpAnswers :
        /\ session_state' = GetMyIpClicked(session_state, pub)
        /\ rendered' =
              ScriptRun("get_ip_btn", session_state',
                        (IF get_public_ip(pub).raised
                         THEN << "Error getting IP: " \o get_public_ip(pub).value >>
                         ELSE <<>>) \o YourCurrentIp(session_state'),
                        NoTrack(session_state'))
        /\ UNCHANGED calls

GetVpnStatus ==
    \E pub \in PublicIpAsked(session_state), ans \in GeoAnswers :
      \E api \in ApiAsked(ans) :
        /\ session_state' = session_state
        /\ rendered' =
              ScriptRun("get_vpn_btn", session_state,
                        YourCurrentIp(session_state)
                        \o GetVpnStatusClicked(session_state, pub, ans, api),
                        NoTrack(session_state))
        /\ UNCHANGED calls

\* Clear Results can be clicked only on a page that shows the button
ClearResults ==
    /\ rendered.clear_button
    /\ ResultsShown(session_state)
    /\ session_state' = ClearClicked(session_state)
    /\ rendered' = ScriptRun("clear_btn", session_state',
                             YourCurrentIp(session_state'),
                             NoTrack(session_state'))
    /\ UNCHANGED calls

TrackLocation ==
    \E pub \in PublicIpAsked(session_state), ans \in GeoAnswers :
      \E api \in ApiAsked(ans), weather \in WeatherAsked(ans),
         network \in SpeedAsked(ans) :
        LET o == TrackLogic(session_state, pub, ans, api, weather, network)
        IN  /\ session_state' = o.ss
            /\ rendered' = ScriptRun("track_btn", session_state,
                                     YourCurrentIp(session_state), o)
            /\ UNCHANGED calls

NextApp ==
    \/ EditIpInput
    \/ GetMyIp
    \/ GetVpnStatus
    \/ ClearResults
    \/ TrackLocation

SpecApp == InitApp /\ [][NextApp]_vars

(* ------------------------------------------------------------------ *)
(* Properties                                                            *)
(* ------------------------------------------------------------------ *)

Returned(i) == calls[i].pc = "done" /\ calls[i].status = "returned"

Score(i) == Result(i).risk_score

\* C1: every returned assessment has 0 <= risk_score <= 100.
C1_ScoreWithinBounds ==
    \A i \in DOMAIN calls : Returned(i) => 0 <= Score(i) /\ Score(i) <= ScoreCap

\* C2: in every returned assessment is_vpn is true exactly when
\* risk_score >= 15.
C2_FlagIffThreshold ==
    \A i \in DOMAIN calls :
        Returned(i) => (Result(i).is_vpn <=> Score(i) >= LowThreshold)

AssessmentKeys == {"is_vpn", "confidence", "indicators", "risk_score", "debug_info"}

\* C3: no call of check_vpn_status ends by raising; a call that has ended
\* has returned a record with the five keys of an assessment.
C3_NeverRaises ==
    \A i \in DOMAIN calls :
        /\ calls[i].status # "raised"
        /\ calls[i].pc = "done" =>
              /\ calls[i].status = "returned"
              /\ DOMAIN Result(i) = AssessmentKeys

\* a call that returned although its ip was None and the API request failed
C3_Witness ==
    \E i \in DOMAIN calls :
        /\ Returned(i)
        /\ calls[i].ip.t = "none"
        /\ calls[i].api_tried
        /\ calls[i].api.kind = "raise"

\* the tier the spec assigns to a score
SpecTier(score) ==
    IF score >= VeryHighThreshold THEN "Very High"
    ELSE IF score >= HighThreshold THEN "High"
    ELSE IF score >= MediumThreshold THEN "Medium"
    ELSE IF score >= LowThreshold THEN "Low"
    ELSE "None"

\* C4: a returned assessment with risk_score >= 15 carries the tier of its
\* (clamped) score: Low 15-29, Medium 30-49, High 50-69, Very High >= 70.
C4_TierOfFlaggedScore ==
    \A i \in DOMAIN calls :
        (Returned(i) /\ Score(i) >= LowThreshold) =>
            /\ Score(i) <= ScoreCap
            /\ Result(i).confidence = SpecTier(Score(i))

\* C5: a returned assessment with risk_score < 15 is not flagged and its
\* confidence is "None".
C5_UnflaggedIsNone ==
    \A i \in DOMAIN calls :
        (Returned(i) /\ Score(i) < LowThreshold) =>
            /\ ~Result(i).is_vpn
            /\ Result(i).confidence = "None"

Rank(confidence) ==
    IF confidence = "None" THEN 0
    ELSE IF confidence = "Low" THEN 1
    ELSE IF confidence = "Medium" THEN 2
    ELSE IF confidence = "High" THEN 3
    ELSE 4

\* C6: of two returned assessments, the one with the higher risk_score
\* never has the lower confidence tier.
C6_TierMonotone ==
    \A i, j \in DOMAIN calls :
        (Returned(i) /\ Returned(j) /\ Score(i) <= Score(j)) =>
            Rank(Result(i).confidence) <= Rank(Result(j).confidence)

\* C7: the returned risk_score is min(100, sum of the weights of the
\* signals that fired).
C7_ScoreIsCappedSum ==
    \A i \in DOMAIN calls :
        Returned(i) => Score(i) = Min(ScoreCap, SumSeq(calls[i].fired))

\* C8: when geo_data is no record the call returns, without scoring any
\* signal, an assessment with risk_score 0, is_vpn false and a first
\* indicator that describes the failure.
C8_MissingGeoShortCircuits ==
    \A i \in DOMAIN calls :
        (calls[i].pc = "done" /\ calls[i].geo.t # "dict") =>
            /\ calls[i].status = "returned"
            /\ Score(i) = 0
            /\ ~Result(i).is_vpn
            /\ ~calls[i].api_tried
            /\ Len(Result(i).indicators) = 1
            /\ Contains("Error during VPN check", Result(i).indicators[1])

C8_Witness ==
    \E i \in DOMAIN calls :
        /\ Returned(i)
        /\ calls[i].geo.t = "none"
        /\ Len(Result(i).indicators) = 1

\* an ip that is a str which validate_ip_address rejects
Malformed(ip) == ip.t = "str" /\ ~validate_ip_address(ip.s)

PatternFires(ip) ==
    LET ip_parts == Split(ip.s)
    IN  /\ Len(ip_parts) = 4
        /\ IntParses(ip_parts[4])
        /\ IntValue(ip_parts[4]) \in common_last_octets

\* the fourth of exactly four parts is no integer
LastPartUnparsable(ip) ==
    LET ip_parts == Split(ip.s)
    IN  Len(ip_parts) = 4 /\ ~IntParses(ip_parts[4])

\* a well-formed ip with the same outcome of the pattern analysis
WellFormedLike(ip) == IF PatternFires(ip) THEN PyStr("8.8.8.1") ELSE PyStr("8.8.8.8")

ApiRaised(api) == api.kind = "raise" \/ (api.code = 200 /\ api.json = "invalid")

ApiFailureEntry(api) == ApiName \o " check failed: " \o api.msg

\* C10: when the API request raises, one failure entry is appended to
\* debug_info (after the three field entries), the API adds no weight, and
\* score, flag, tier, indicators, fired weights and the rest of debug_info
\* are those of the same call with an API that reports no flags.
C10_ApiFailureIsLocal ==
    \A i \in DOMAIN calls :
        (calls[i].pc = "done" /\ calls[i].api_tried /\ ApiRaised(calls[i].api)) =>
            LET ref == check_vpn_status(calls[i].ip, calls[i].geo, ApiNoFlags)
                rv == ref.vpn_indicators
                debug == Result(i).debug_info
            IN  /\ calls[i].status = "returned"
                /\ Score(i) = rv.risk_score
                /\ Result(i).is_vpn = rv.is_vpn
                /\ Result(i).confidence = rv.confidence
                /\ Result(i).indicators = rv.indicators
                /\ calls[i].fired = ref.fired
                /\ Len(debug) = Len(rv.debug_info) + 1
                /\ debug[4] = ApiFailureEntry(calls[i].api)
                /\ SubSeq(debug, 1, 3) \o SubSeq(debug, 5, Len(debug)) = rv.debug_info

\* the API request failed and a later signal (the fallback) still fired
C10_Witness ==
    \E i \in DOMAIN calls :
        /\ Returned(i)
        /\ calls[i].api_tried
        /\ ApiRaised(calls[i].api)
        /\ Len(Result(i).indicators) >= 1
        /\ Contains("Non-traditional ISP", Result(i).indicators[Len(Result(i).indicators)])

\* the API answered with a status other than 200
ApiNon200(api) == api.kind = "response" /\ api.code # 200

\* C11: when the API answers with a non-200 status, a failure entry that
\* names the API is appended to debug_info and the API adds no weight.
C11_Non200IsLogged ==
    \A i \in DOMAIN calls :
        (calls[i].pc = "done" /\ calls[i].api_tried /\ ApiNon200(calls[i].api)) =>
            /\ \E k \in 1..Len(Result(i).debug_info) :
                  Contains(ApiName, Result(i).debug_info[k])
            /\ calls[i].fired =
                  check_vpn_status(calls[i].ip, calls[i].geo, ApiNoFlags).fired

\* the private/bogon prefixes that the spec lists
PrivatePrefixes == << "10.", "172.16.", "192.168.", "127." >>

StartsWith(prefix, s) == Len(s) >= Len(prefix) /\ SubSeq(s, 1, Len(prefix)) = prefix

IsPrivate(ip) ==
    ip.t = "str" /\ \E k \in 1..Len(PrivatePrefixes) : StartsWith(PrivatePrefixes[k], ip.s)

\* a routable ip with the same last dot-separated part
RoutableTwin(ip) ==
    LET ip_parts == Split(ip.s) IN PyStr("8.8.8." \o ip_parts[Len(ip_parts)])

\* C13 as stated: a private ip scores 25 more (before the clamp) than a
\* routable ip with the same last octet, and an indicator records the
\* private range.
C13_PrivateRangeAdds25 ==
    \A i \in DOMAIN calls :
        (Returned(i) /\ IsPrivate(calls[i].ip)) =>
            LET ref == check_vpn_status(RoutableTwin(calls[i].ip), calls[i].geo,
                                        calls[i].api)
            IN  /\ SumSeq(calls[i].fired) = SumSeq(ref.fired) + 25
                /\ Len(Result(i).indicators) = Len(ref.vpn_indicators.indicators) + 1

\* C13 amended: the prefix of the ip is no signal.  A private ip gets
\* exactly the assessment (score, fired weights, flag, tier, indicators,
\* debug_info) of a routable ip with the same last octet.
C13_PrivateRangeIsNoSignal ==
    \A i \in DOMAIN calls :
        (Returned(i) /\ IsPrivate(calls[i].ip)) =>
            LET ref == check_vpn_status(RoutableTwin(calls[i].ip), calls[i].geo,
                                        calls[i].api)
            IN  /\ Result(i) = ref.vpn_indicators
                /\ calls[i].fired = ref.fired

\* a private ip whose last octet made the pattern signal fire
C13_Witness ==
    \E i \in DOMAIN calls :
        /\ Returned(i)
        /\ IsPrivate(calls[i].ip)
        /\ \E k \in 1..Len(Result(i).indicators) :
              Contains("Common VPN server IP pattern", Result(i).indicators[k])

\* what hosting/datacenter keyword matches have added once the keyword
\* loops, the proxy flag and the datacenter-ISP test are done: the score
\* less the VPN keyword weights and the proxy-flag weight
HostingCaused(c) ==
    c.vpn_indicators.risk_score
      - SumSeq(HitWeights(VpnKeywordLoop(c, Len(vpn_keywords))))
      - (IF Truthy(Get(c.geo.d, "proxy", PyBool(FALSE))) THEN ProxyFlagWeight ELSE 0)

HasFallbackIndicator(i) ==
    /\ Result(i).indicators # <<>>
    /\ Contains("Non-traditional ISP detected",
                Result(i).indicators[Len(Result(i).indicators)])

\* C15 as stated: the fallback weight is added only when no other signal
\* fired, so an assessment with the fallback has no other indicator and
\* the score 10.
C15_FallbackOnlyWhenNothingFired ==
    \A i \in DOMAIN calls :
        (Returned(i) /\ HasFallbackIndicator(i)) =>
            /\ Len(Result(i).indicators) = 1
            /\ Score(i) = FallbackWeight

\* C15 amended: the fallback step adds its indicator and +10 exactly when
\* the ISP is non-empty, contains no traditional-telecom name and the
\* clamped score is below 15 (other signals may have fired); it then flags
\* the assessment as Low if the new score reaches 15, and otherwise it
\* changes nothing.
C15_FallbackBelowThreshold ==
    [][\A i \in DOMAIN calls :
          (calls[i].pc = "fallback" /\ calls'[i].pc = "return") =>
              LET before == calls[i].vpn_indicators
                  after == calls'[i].vpn_indicators
                  applies == after.indicators # before.indicators
              IN  /\ applies <=>
                        /\ calls[i].isp # ""
                        /\ ~AnyIn(traditional_telecoms, calls[i].isp)
                        /\ before.risk_score < LowThreshold
                  /\ applies =>
                        /\ Len(after.indicators) = Len(before.indicators) + 1
                        /\ after.risk_score = before.risk_score + FallbackWeight
                        /\ after.is_vpn = (after.risk_score >= LowThreshold)
                        /\ after.confidence = "Low"
                  /\ ~applies => after = before]_vars

\* the fallback was added on top of another signal and flagged the result
C15_Witness ==
    \E i \in DOMAIN calls :
        /\ Returned(i)
        /\ HasFallbackIndicator(i)
        /\ Len(Result(i).indicators) >= 2
        /\ Score(i) >= LowThreshold

\* geo_data is a dict whose four text fields are strings (or absent)
ReadableGeo(c) == c.geo.t = "dict" /\ FirstBadField(c) = 0

\* no keyword of the list occurs in ISP, Organization or AS, whatever the case
NoKeywordIn(list, c) ==
    /\ ~AnyIn(list, Lower(RawField(c, "isp").s))
    /\ ~AnyIn(list, Lower(RawField(c, "org").s))
    /\ ~AnyIn(list, Lower(RawField(c, "as").s))

\* the API adds nothing: it failed, or it answered without a positive flag
ApiReportsNoFlags(api) ==
    \/ api.kind = "raise"
    \/ api.code # 200
    \/ api.json # "dict"
    \/ (~parser(api).vpn /\ ~parser(api).proxy /\ ~parser(api).tor)

\* a str ip, a readable record without VPN or hosting keyword, no API flag
Benign(c) ==
    /\ c.ip.t = "str"
    /\ ReadableGeo(c)
    /\ NoKeywordIn(vpn_keywords, c)
    /\ NoKeywordIn(datacenter_keywords, c)
    /\ ApiReportsNoFlags(c.api)

ProxyFlagSet(c) == Truthy(Get(c.geo.d, "proxy", PyBool(FALSE)))

\* C16: with the proxy flag set and everything else benign, the returned
\* assessment has risk_score >= 30, is flagged, has a tier of at least
\* Medium and names the proxy flag among its indicators.
C16_ProxyFlagAloneIsMedium ==
    \A i \in DOMAIN calls :
        (Returned(i) /\ Benign(calls[i]) /\ ProxyFlagSet(calls[i])) =>
            /\ Score(i) >= MediumThreshold
            /\ Result(i).is_vpn
            /\ Rank(Result(i).confidence) >= Rank("Medium")
            /\ \E k \in 1..Len(Result(i).indicators) :
                  Contains("Proxy flag detected", Result(i).indicators[k])

\* the proxy flag was the only signal that fired
C16_Witness ==
    \E i \in DOMAIN calls :
        /\ Returned(i)
        /\ Benign(calls[i])
        /\ ProxyFlagSet(calls[i])
        /\ calls[i].fired = << ProxyFlagWeight >>
        /\ Result(i).confidence = "Medium"

\* kw (lower case) occurs in s when the case of s is ignored
ContainsIgnoreCase(kw, s) ==
    \E p \in 1..(Len(s) - Len(kw) + 1) :
        \A j \in 1..Len(kw) : LowerChar(Char(s, p + j - 1)) = Char(kw, j)

\* an indicator names the keyword as a VPN keyword found in the ISP
NamesIspKeyword(i, keyword) ==
    \E k \in 1..Len(Result(i).indicators) :
        /\ Contains("VPN keyword \"" \o keyword \o "\" found in ISP",
                    Result(i).indicators[k])

\* C17: when the ISP of a readable record contains a VPN keyword in any
\* case and the ip is a str, the assessment has an indicator that names
\* that keyword, risk_score >= 15 and is_vpn true, whatever the API did.
C17_VpnBrandInIspIsFlagged ==
    \A i \in DOMAIN calls :
        (Returned(i) /\ calls[i].ip.t = "str" /\ ReadableGeo(calls[i])) =>
            \A k \in 1..Len(vpn_keywords) :
                ContainsIgnoreCase(vpn_keywords[k], RawField(calls[i], "isp").s) =>
                    /\ NamesIspKeyword(i, vpn_keywords[k])
                    /\ Score(i) >= LowThreshold
                    /\ Result(i).is_vpn

\* the example of the spec: NordVPN Services in the Netherlands
C17_Witness ==
    \E i \in DOMAIN calls :
        /\ Returned(i)
        /\ validate_ip_address(calls[i].ip.s) /\ calls[i].ip.t = "str"
        /\ RawField(calls[i], "isp").s = "NordVPN Services"
        /\ RawField(calls[i], "org").s = ""
        /\ RawField(calls[i], "as").s = ""
        /\ RawField(calls[i], "country").s = "Netherlands"
        /\ ~ProxyFlagSet(calls[i])
        /\ calls[i].api.kind = "raise"
        /\ NamesIspKeyword(i, "nordvpn")

\* the record of the traditional telecom of the spec, proxy flag not set
ComcastGeo(c) ==
    /\ c.geo.t = "dict"
    /\ RawField(c, "isp") = PyStr("Comcast Cable")
    /\ RawField(c, "org") = PyStr("Comcast")
    /\ RawField(c, "as") = PyStr("AS7922 Comcast")
    /\ RawField(c, "country") = PyStr("United States")
    /\ ~ProxyFlagSet(c)

\* C18: for the Comcast record, with the API failing or reporting no flag,
\* the returned risk_score is below 30 for every ip, no indicator is the
\* non-traditional-ISP fallback, and is_vpn implies risk_score >= 15.
C18_TraditionalTelecomStaysLow ==
    \A i \in DOMAIN calls :
        (Returned(i) /\ ComcastGeo(calls[i]) /\ ApiReportsNoFlags(calls[i].api)) =>
            /\ Score(i) < MediumThreshold
            /\ \A k \in 1..Len(Result(i).indicators) :
                  ~Contains("Non-traditional ISP detected", Result(i).indicators[k])
            /\ Result(i).is_vpn => Score(i) >= LowThreshold

\* the Comcast record scored for an ip whose last octet is a pool octet:
\* the fallback phase was reached with a score below 15 and added nothing
C18_Witness ==
    \E i \in DOMAIN calls :
        /\ Returned(i) /\ ComcastGeo(calls[i]) /\ ApiReportsNoFlags(calls[i].api)
        /\ calls[i].ip = PyStr("10.0.0.1")
        /\ Score(i) = IpPatternWeight
        /\ ~Result(i).is_vpn

\* the assessment the call returns when it runs alone, from its inputs
AloneResult(c) == check_vpn_status(c.ip, c.geo, c.api).vpn_indicators

\* C20: with two calls interleaved step by step, no step changes the ip,
\* the geo record or the API answer of any call, every step changes the
\* frame of one call only, and a call that finishes holds the assessment
\* it returns when run alone on its inputs.
C20_InterleavedCallsAreIndependent ==
    [][ /\ \A i \in DOMAIN calls :
              /\ calls'[i].ip = calls[i].ip
              /\ calls'[i].geo = calls[i].geo
              /\ calls'[i].api = calls[i].api
        /\ \E i \in DOMAIN calls :
              \A j \in DOMAIN calls \ {i} : calls'[j] = calls[j]
        /\ \A i \in DOMAIN calls :
              calls'[i].pc = "done" =>
                  /\ calls'[i].status = "returned"
                  /\ calls'[i].vpn_indicators = AloneResult(calls[i])
      ]_vars

\* one call has returned its assessment while the other, given another
\* record, is in the middle of its signal steps
C20_Witness ==
    /\ DOMAIN calls = {1, 2}
    /\ Returned(1)
    /\ Result(1) = AloneResult(calls[1])
    /\ Score(1) >= LowThreshold
    /\ calls[2].pc = "ip_pattern"
    /\ calls[2].geo # calls[1].geo
    /\ calls[2].geo.t = "dict"
    /\ calls[2].vpn_indicators.indicators # <<>>

\* the texts the indicators of each kind begin with, in evaluation order;
\* the three API texts are one kind
IndicatorKinds ==
    << {"VPN keyword \""}, {"Hosting keyword \""}, {"Proxy flag detected"},
       {"Datacenter ISP detected: "},
       {"VPN detected by ", "Proxy detected by ", "Tor network detected by "},
       {"Common VPN server IP pattern detected"}, {"VPN-friendly country ("},
       {"Non-traditional ISP detected: "}, {"Error during VPN check: "} >>

ErrorKind == Len(IndicatorKinds)

\* the place of an indicator's kind in the evaluation order, 0 if unknown
KindOf(msg) ==
    IF \E k \in 1..Len(IndicatorKinds) : \E p \in IndicatorKinds[k] : StartsWith(p, msg)
    THEN CHOOSE k \in 1..Len(IndicatorKinds) :
            \E p \in IndicatorKinds[k] : StartsWith(p, msg)
    ELSE 0

IsPrefixOf(s, t) == Len(s) <= Len(t) /\ SubSeq(t, 1, Len(s)) = s

\* the kinds never go back, and an error indicator is alone and last
InDetectionOrder(inds) ==
    /\ \A k \in 1..Len(inds) : KindOf(inds[k]) # 0
    /\ \A k \in 1..(Len(inds) - 1) : KindOf(inds[k]) <= KindOf(inds[k + 1])
    /\ \A k \in 1..(Len(inds) - 1) : KindOf(inds[k]) # ErrorKind

\* C21: every step of an assessment keeps the indicators it found as a
\* prefix of the ones it leaves (nothing removed or reordered), and the
\* indicators it leaves are in the evaluation order: VPN keyword, hosting
\* keyword, proxy flag, datacenter ISP, API flags, last-octet pattern,
\* VPN-friendly country, fallback, with an error indicator last.
C21_IndicatorsAppendOnlyInOrder ==
    [][ \A i \in DOMAIN calls :
            /\ IsPrefixOf(calls[i].vpn_indicators.indicators,
                          calls'[i].vpn_indicators.indicators)
            /\ InDetectionOrder(calls'[i].vpn_indicators.indicators)
      ]_vars

\* a returned assessment with a VPN keyword first, a hosting keyword, the
\* proxy flag and an API flag in between, and the error indicator last
C21_Witness ==
    \E i \in DOMAIN calls :
        LET inds == Result(i).indicators
        IN  /\ Returned(i)
            /\ Len(inds) >= 5
            /\ KindOf(inds[1]) = 1
            /\ \E k \in 1..Len(inds) : KindOf(inds[k]) = 2
            /\ \E k \in 1..Len(inds) : KindOf(inds[k]) = 3
            /\ \E k \in 1..Len(inds) : KindOf(inds[k]) = 5
            /\ KindOf(inds[Len(inds)]) = ErrorKind

\* C22: the session state holds no IP address and no location data of an
\* earlier interaction: none of the keys the script writes (the detected
\* public IP, the last tracked IP, the tracking results) is set.
C22_NoIpOrLocationStored ==
    /\ session_state.current_public_ip = PyMissing
    /\ session_state.last_tracked_ip = PyNone
    /\ session_state.tracking_results = PyNone

\* C23: tracking_results is set iff last_tracked_ip is set, the ip_address
\* of the results is last_tracked_ip, and the page that follows a click on
\* Clear Results has tracking_results None, last_tracked_ip None and
\* show_results False.
C23_SessionStateConsistent ==
    /\ session_state.tracking_results # PyNone <=> session_state.last_tracked_ip # PyNone
    /\ session_state.tracking_results # PyNone =>
          PyStr(session_state.tracking_results.ip_address) = session_state.last_tracked_ip
    /\ rendered.widget = "clear_btn" =>
          /\ session_state.tracking_results = PyNone
          /\ session_state.last_tracked_ip = PyNone
          /\ session_state.show_results = FALSE

\* results were tracked for the public IP, cleared, and the page of the
\* clearing run is on display with the detected IP still in the field
C23_Witness ==
    /\ rendered.widget = "clear_btn"
    /\ session_state.tracking_results = PyNone
    /\ session_state.last_tracked_ip = PyNone
    /\ ~session_state.show_results
    /\ session_state.ip_input = PublicIp

\* a run of the track logic that got as far as the test of need_new_data:
\* the text of the field was accepted and, if empty, the public IP was found
TrackResolved ==
    /\ rendered'.widget = "track_btn"
    /\ \A k \in 1..Len(rendered'.messages) :
          /\ ~StartsWith("Invalid IP address format", rendered'.messages[k])
          /\ ~StartsWith("Error fetching public IP", rendered'.messages[k])

\* the ip such a run resolved
ResolvedIp ==
    IF Strip(session_state.ip_input) = "" THEN PublicIp ELSE Strip(session_state.ip_input)

TrackFailureTexts ==
    { "Invalid IP address format", "Error fetching public IP: ",
      "Request timed out", "Network error: ",
      "Invalid response format from geolocation service", "Unexpected error: ",
      "Error: ", "Unable to determine coordinates" }

\* the page of a run of Track Location that failed
TrackFailedPage(page) ==
    /\ page.widget = "track_btn"
    /\ page.messages # <<>>
    /\ \E p \in TrackFailureTexts : StartsWith(p, page.messages[Len(page.messages)])

\* C25: a failed run of Track Location leaves the session state as it
\* was, so cached results stay stored and shown (show_results true); a run
\* of Track Location changes the session state only when it ends with the
\* success message; and the next plain rerun displays the stored results.
C25_FailedTrackKeepsState ==
    [][ /\ TrackFailedPage(rendered') =>
              /\ session_state' = session_state
              /\ session_state.tracking_results # PyNone => ResultsShown(session_state')
        /\ (rendered'.widget = "track_btn" /\ session_state' # session_state) =>
              /\ rendered'.messages # <<>>
              /\ rendered'.messages[Len(rendered'.messages)] =
                    "Location data fetched successfully!"
        /\ TrackFailedPage(rendered) /\ rendered'.widget = "ip_input" =>
              rendered'.results = session_state.tracking_results
      ]_vars

\* a lookup for a typed address failed with status fail while the results
\* of the public IP are stored: they stay stored and marked as shown
C25_Witness ==
    /\ TrackFailedPage(rendered)
    /\ rendered.lookup
    /\ rendered.messages[Len(rendered.messages)] = "Error: invalid query"
    /\ session_state.ip_input = "8.8.8.8"
    /\ session_state.last_tracked_ip = PyStr(PublicIp)
    /\ session_state.tracking_results # PyNone
    /\ session_state.tracking_results.ip_address = PublicIp
    /\ session_state.show_results

====
